---- MODULE Spec2Model ----
(***************************************************************************)
(* Model of src/dev/image_getters/bird_image_fetcher.py: the orchestrator  *)
(* loop of main(), the per-species pipeline of WikimediaImageFetcher       *)
(* (search, score, resolve, download, overwrite arbiter) and the progress  *)
(* ledger (load_progress / save_progress).                                 *)
(*                                                                         *)
(* Strings of the program are sequences of one-character strings, so that  *)
(* _sanitize_filename is computed character by character.  The ledger is a *)
(* function from scientific names to filenames; the empty filename <<>> is *)
(* Python's "" (a recorded failure).                                       *)
(*                                                                         *)
(* Not modelled: --dry-run (it returns before the loop), the counters      *)
(* download_count / success_count / error_count and logging.  In the       *)
(* orchestrator _is_new_image_better is an input of the download step and  *)
(* create_manifest is left out; both are modelled as functions called on   *)
(* their own.  Interrupts and kills happen between steps, and a kill       *)
(* during a write of the ledger is a step of its own.                      *)
(***************************************************************************)
EXTENDS Integers, Sequences, FiniteSets, TLC

VARIABLES
    \* ---- inputs of a verification scenario, fixed in Init
    catalog,        \* load_birds_from_csv(): sequence of bird records
    argSpace,       \* the command lines main() may be started with
    writeFates,     \* the fates a write of the ledger file may meet
    \* ---- durable state (survives the process)
    ledgerFile,     \* PROGRESS_PATH: [state: absent | ok | corrupt, data: ledger]
    files,          \* filenames present in OUTPUT_DIR
    \* ---- the running process
    pc,             \* position of main(): idle, loop, search, score, resolve,
                    \* download, record, finally, exited
    args,           \* argparse namespace
    birds,          \* main's `birds` after --species and --limit
    i,              \* enumerate index of the for loop (0-based)
    progress,       \* main's `progress` dict
    term,           \* index into search_terms (1-based)
    nAll,           \* len(all_results) in search_bird_images
    cands,          \* len(search_results[:3]) in fetch_bird_image
    k,              \* 1-based index of the candidate being tried
    result,         \* value returned by fetch_bird_image: "none" | "null" | "file"
    fetcherPolicy,  \* fetcher.overwrite_policy attribute ("unset" until assigned)
    exitCode,       \* process exit status (-1 while none)
    \* ---- history variables (observations, never read by the program)
    runs,           \* number of processes started so far
    loaded,         \* value of `progress` right after main line 535
    files0,         \* OUTPUT_DIR content when the process started
    outcome,        \* per species: PENDING | SKIPPED | ACTIVE | DONE | FAILED
    writes,         \* per species: assignments progress[name] = ... this run
    contacted,      \* species for which a remote request was issued this run
    acquired,       \* species for which download_and_process_image returned a name
    endReason,      \* why the loop ended: none | exhausted | interrupt | exception
    ended,          \* how the latest process ended: nothing | complete (it
                    \* went through its whole catalog and its final write of
                    \* the ledger succeeded) | other
    since,          \* value of `ended` when this process started
    unsaved,        \* outcomes recorded since the last completed durable write
    durable,        \* content of the last completed durable write
    sticky,         \* first 'a'/'n' answer to an overwrite prompt this run, and
                    \* the loop index at which it was given
    laterPrompt,    \* a prompt was issued for a later species than that one
    pendingReq,     \* a remote request was issued and no sleep has followed yet
    \* ---- one function of the program called on its own
    callArgs,       \* the function and the arguments it is called with
    returned        \* [done |-> FALSE] before the call, then its return value

inputVars == <<catalog, argSpace, writeFates>>
diskVars  == <<ledgerFile, files>>
fetchVars == <<term, nAll, cands, k, result>>
procVars  == <<pc, args, birds, i, progress, fetchVars, fetcherPolicy, exitCode>>
startVars == <<args, birds, runs, loaded, files0, since>>
askVars   == <<fetcherPolicy, sticky, laterPrompt>>
ckptVars  == <<ledgerFile, unsaved, durable>>
histVars  == <<runs, loaded, files0, outcome, writes, contacted, acquired,
               endReason, ended, since, unsaved, durable, sticky, laterPrompt,
               pendingReq>>
unitVars  == <<callArgs, returned>>
programVars == <<inputVars, diskVars, procVars, histVars>>
vars      == <<programVars, unitVars>>

----------------------------------------------------------------------------
(* Program constants *)

CheckpointEvery == 10      \* main: (i + 1) % 10 == 0
MinCandidates   == 15      \* search_bird_images: len(all_results) >= 15
SearchLimit     == 10      \* _search_commons_images: 'srlimit': 10
TopN            == 3       \* fetch_bird_image: search_results[:3]

(* Bounds of the model *)

MaxRuns    == 2            \* processes started in one behaviour
NumFillers == 1            \* species without remote media in the main catalog

----------------------------------------------------------------------------
(* Strings *)

UpperLetters == <<"A", "B", "C", "D", "E", "F", "G", "H", "I", "J", "K", "L", "M",
                   "N", "O", "P", "Q", "R", "S", "T", "U", "V", "W", "X", "Y", "Z">>
LowerLetters == <<"a", "b", "c", "d", "e", "f", "g", "h", "i", "j", "k", "l", "m",
                   "n", "o", "p", "q", "r", "s", "t", "u", "v", "w", "x", "y", "z">>
LowerOf == [c \in {UpperLetters[n] : n \in 1..26} |->
              LowerLetters[CHOOSE n \in 1..26 : UpperLetters[n] = c]]

\* str.lower() on one character
Lower(c) == IF c \in DOMAIN LowerOf THEN LowerOf[c] ELSE c

\* str.isalnum() on one character (letters and digits of ASCII)
IsAlnum(c) ==
    \/ c \in DOMAIN LowerOf
    \/ c \in {LowerLetters[n] : n \in 1..26}
    \/ c \in {"0", "1", "2", "3", "4", "5", "6", "7", "8", "9"}

RECURSIVE Replace(_, _, _)
\* str.replace(old, new) for a one-character `old`; new is a sequence
Replace(s, old, new) ==
    IF s = <<>> THEN <<>>
    ELSE (IF Head(s) = old THEN new ELSE <<Head(s)>>) \o Replace(Tail(s), old, new)

RECURSIVE MapLower(_)
MapLower(s) == IF s = <<>> THEN <<>> ELSE <<Lower(Head(s))>> \o MapLower(Tail(s))

KeepSafe(c) == IsAlnum(c) \/ c \in {"_", "-"}

_sanitize_filename(name) ==
    LET r1 == Replace(name, " ", <<"_">>)
        r2 == Replace(r1, ".", <<>>)
        r3 == Replace(r2, ",", <<>>)
    IN  MapLower(SelectSeq(r3, KeepSafe))

WebpName(name) == _sanitize_filename(name) \o <<".webp">>
JpgName(name)  == _sanitize_filename(name) \o <<".jpg">>

\* webp_path.exists() or jpg_path.exists()
FilesExistIn(fs, name) == WebpName(name) \in fs \/ JpgName(name) \in fs
FilesExist(name) == FilesExistIn(files, name)

----------------------------------------------------------------------------
(* Scenario inputs *)

Bird(sn, cn) == [scientific_name |-> sn, common_name |-> cn]

\* Two species the remote index has media for.
LiveCatalog ==
    << Bird(<<"A", " ", "a">>, <<"a", "a">>),
       Bird(<<"B", " ", "b">>, <<"b", "b">>) >>

Digits == <<"0", "1", "2", "3", "4", "5", "6", "7", "8", "9">>
Numeral(n) ==
    IF n < 10 THEN <<Digits[n + 1]>>
    ELSE <<Digits[(n \div 10) + 1], Digits[(n % 10) + 1]>>

\* n species the remote index knows nothing about, without an English name
Fillers(n) == [j \in 1..n |-> Bird(<<"F", " ">> \o Numeral(j), <<>>)]

\* One species with media, then the fillers.
MainCatalog == <<LiveCatalog[1]>> \o Fillers(NumFillers)

\* A catalog that reaches past the first periodic checkpoint.
LongCatalog == <<LiveCatalog[1]>> \o Fillers(CheckpointEvery)

NamesOf(cat) == {cat[n].scientific_name : n \in 1..Len(cat)}
Species == NamesOf(LiveCatalog) \cup NamesOf(MainCatalog) \cup NamesOf(LongCatalog)

\* Species for which the remote search index returns hits.
RemoteIndexed == NamesOf(LiveCatalog)

Policies == {"never", "always", "ask", "better"}
NoLimit  == -1     \* argparse: --limit absent (None)
NoFilter == <<>>   \* argparse: --species absent (None)

ArgsOver(limits, filters) ==
    [no_resume : BOOLEAN, force_redownload : BOOLEAN, overwrite : Policies,
     limit : limits, species : filters]

MainArgs    == ArgsOver({NoLimit}, {NoFilter})
DefaultArgs == [no_resume |-> FALSE, force_redownload |-> FALSE,
                overwrite |-> "better", limit |-> NoLimit, species |-> NoFilter]

----------------------------------------------------------------------------
(* Ledger *)

EmptyLedger == [s \in {} |-> <<>>]

\* progress.setdefault(name, value): an entry already present is kept
AssignIfAbsent(led, name, value) ==
    [s \in (DOMAIN led) \cup {name} |->
        IF s \in DOMAIN led THEN led[s] ELSE value]

\* progress[name] = value
Assign(led, name, value) ==
    [s \in (DOMAIN led) \cup {name} |-> IF s = name THEN value ELSE led[s]]

NoFile      == [state |-> "absent",  data |-> EmptyLedger]
CorruptFile == [state |-> "corrupt", data |-> EmptyLedger]
OkFile(led) == [state |-> "ok",      data |-> led]

\* A loader that never finds the file.
LoadNothing == EmptyLedger

\* load_progress(): the parsed file, {} when the file is missing or unparsable
load_progress == IF ledgerFile.state = "ok" THEN ledgerFile.data ELSE EmptyLedger

\* save_progress(progress) with the fate of the write:
\*   ok        the file holds the dump
\*   truncated open(..., 'w') emptied the file, the dump raised, error logged
\*   unopened  mkdir/open raised, file untouched, error logged
SaveFates == {"ok", "truncated", "unopened"}
save_progress(led, fate) ==
    CASE fate = "ok"        -> OkFile(led)
      [] fate = "truncated" -> CorruptFile
      [] fate = "unopened"  -> ledgerFile

----------------------------------------------------------------------------
(* main(): start of the process, lines 511-590 *)

\* args.species.lower() in b['scientific_name'].lower()
IsSubstring(t, s) ==
    \E j \in 0..(Len(s) - Len(t)) : SubSeq(s, j + 1, j + Len(t)) = t

SpeciesFilter(cat, a) ==
    IF a.species = NoFilter THEN cat
    ELSE LET Hit(b) == IsSubstring(MapLower(a.species), MapLower(b.scientific_name))
         IN  SelectSeq(cat, Hit)

\* birds[:args.limit] when args.limit is truthy: neither None nor 0
ApplyLimit(bs, a) ==
    IF a.limit = NoLimit \/ a.limit = 0 THEN bs
    ELSE SubSeq(bs, 1, IF a.limit < Len(bs) THEN a.limit ELSE Len(bs))

NoSticky == [answer |-> "none", at |-> -1]

Running == pc \in {"loop", "search", "score", "resolve", "download", "record"}
Stopped == pc \in {"idle", "exited"}

CurBird == birds[i + 1]
CurName == CurBird.scientific_name

\* The process is gone: its memory and the observations of the run are reset.
NoProcess ==
    /\ args' = DefaultArgs
    /\ birds' = <<>>
    /\ i' = 0
    /\ progress' = EmptyLedger
    /\ term' = 0 /\ nAll' = 0 /\ cands' = 0 /\ k' = 0 /\ result' = "none"
    /\ fetcherPolicy' = "unset"
    /\ loaded' = EmptyLedger
    /\ files0' = {}
    /\ outcome' = [s \in Species |-> "PENDING"]
    /\ writes' = [s \in Species |-> 0]
    /\ contacted' = {}
    /\ acquired' = {}
    /\ endReason' = "none"
    /\ since' = "nothing"
    /\ unsaved' = 0
    /\ sticky' = NoSticky
    /\ laterPrompt' = FALSE
    /\ pendingReq' = FALSE

\* No process has run yet.
InitProcess ==
    /\ pc = "idle"
    /\ args = DefaultArgs
    /\ birds = <<>>
    /\ i = 0
    /\ progress = EmptyLedger
    /\ term = 0 /\ nAll = 0 /\ cands = 0 /\ k = 0 /\ result = "none"
    /\ fetcherPolicy = "unset"
    /\ exitCode = -1
    /\ loaded = EmptyLedger
    /\ files0 = {}
    /\ outcome = [s \in Species |-> "PENDING"]
    /\ writes = [s \in Species |-> 0]
    /\ contacted = {}
    /\ acquired = {}
    /\ endReason = "none"
    /\ since = "nothing"
    /\ unsaved = 0
    /\ sticky = NoSticky
    /\ laterPrompt = FALSE
    /\ pendingReq = FALSE

\* No function is called on its own.
NoCall ==
    /\ callArgs = [fn |-> "none"]
    /\ returned = [done |-> FALSE]

\* A fresh installation: no ledger file, no artifacts.
Init ==
    /\ catalog = MainCatalog
    /\ argSpace = MainArgs
    /\ writeFates = SaveFates
    /\ ledgerFile = NoFile
    /\ files = {}
    /\ durable = EmptyLedger
    /\ runs = 0
    /\ ended = "nothing"
    /\ InitProcess
    /\ NoCall

\* main() up to the loop: load the catalog, load the ledger, filter, limit.
StartRun(a) ==
    /\ Stopped
    /\ runs < MaxRuns
    /\ a \in argSpace
    /\ LET filtered == SpeciesFilter(catalog, a)
           \* line 535, not reached when line 532 returns
           prog     == IF ~a.no_resume /\ catalog # <<>> THEN load_progress
                       ELSE EmptyLedger
       IN  /\ args' = a
           /\ progress' = prog
           /\ loaded' = prog
           /\ IF catalog = <<>> \/ filtered = <<>>
              THEN /\ pc' = "exited"            \* return 1
                   /\ exitCode' = 1
                   /\ birds' = <<>>
              ELSE /\ pc' = "loop"
                   /\ exitCode' = -1
                   /\ birds' = ApplyLimit(filtered, a)
    /\ i' = 0
    /\ term' = 0 /\ nAll' = 0 /\ cands' = 0 /\ k' = 0 /\ result' = "none"
    /\ fetcherPolicy' = "unset"
    /\ runs' = runs + 1
    /\ files0' = files
    /\ outcome' = [s \in Species |-> "PENDING"]
    /\ writes' = [s \in Species |-> 0]
    /\ contacted' = {}
    /\ acquired' = {}
    /\ endReason' = "none"
    /\ unsaved' = 0
    /\ sticky' = NoSticky
    /\ laterPrompt' = FALSE
    /\ pendingReq' = FALSE
    /\ since' = ended
    /\ UNCHANGED <<inputVars, unitVars, diskVars, durable, ended>>

----------------------------------------------------------------------------
(* main(): the loop, lines 592-629 *)

\* A skip test that passes over recorded failures only.
ShouldSkipFailuresOnly(name) ==
    /\ ~args.no_resume
    /\ name \in DOMAIN progress
    /\ ~args.force_redownload
    /\ progress[name] = <<>>

\* A skip test that trusts the ledger without looking at OUTPUT_DIR.
ShouldSkipAnyEntry(name) ==
    /\ ~args.no_resume
    /\ name \in DOMAIN progress
    /\ ~args.force_redownload

\* lines 598-613: skip if already downloaded
ShouldSkip(name) ==
    /\ ~args.no_resume
    /\ name \in DOMAIN progress
    /\ ~args.force_redownload
    /\ (progress[name] # <<>> => FilesExist(name))

\* `continue` of lines 608 and 613: no ledger write, no checkpoint, no sleep
SkipSpecies ==
    /\ pc = "loop"
    /\ i < Len(birds)
    /\ ShouldSkip(CurName)
    /\ i' = i + 1
    /\ outcome' = [outcome EXCEPT ![CurName] = "SKIPPED"]
    /\ UNCHANGED <<inputVars, unitVars, startVars, askVars, ckptVars, files, pc, progress,
                   fetchVars, exitCode, writes, contacted, acquired, endReason,
                   ended, pendingReq>>

\* search_terms of search_bird_images (lines 77-87): is term t the empty string?
TermIsEmpty(bird, t) == t \in {8, 9} /\ bird.common_name = <<>>
NumTerms == 9

\* A planner that also issues the empty variants.
NextTermAny(bird, t) == IF t > NumTerms THEN NumTerms + 1 ELSE t

RECURSIVE NextTerm(_, _)
\* first index >= t of a non-empty search term, NumTerms + 1 if there is none
NextTerm(bird, t) ==
    IF t > NumTerms THEN NumTerms + 1
    ELSE IF TermIsEmpty(bird, t) THEN NextTerm(bird, t + 1) ELSE t

\* lines 616-620 and 371-375: fetch_bird_image is entered
BeginFetch ==
    /\ pc = "loop"
    /\ i < Len(birds)
    /\ ~ShouldSkip(CurName)
    /\ pc' = "search"
    /\ term' = NextTerm(CurBird, 1)
    /\ nAll' = 0 /\ cands' = 0 /\ k' = 0 /\ result' = "none"
    /\ outcome' = [outcome EXCEPT ![CurName] = "ACTIVE"]
    /\ UNCHANGED <<inputVars, unitVars, startVars, askVars, ckptVars, files, i, progress,
                   exitCode, writes, contacted, acquired, endReason, ended,
                   pendingReq>>

\* A remote request is issued for the current species.
Request == contacted' = contacted \cup {CurName}

\* Number of hits of one search that survive the title gate and the filter.
HitChoices(name) == IF name \in RemoteIndexed THEN {0, SearchLimit} ELSE {0}

\* One iteration of the loop of search_bird_images, lines 90-103.
\*   hits         results left by _search_commons_images and _filter_bird_images
\*                (0 also stands for a transport failure, which returns [])
\*   filterRaises _filter_bird_images raised (a hit without a string snippet):
\*                the except of line 101 continues without the sleep
SearchTerm(hits, filterRaises) ==
    /\ pc = "search"
    /\ hits \in HitChoices(CurName)
    /\ filterRaises => hits > 0
    /\ Request
    /\ LET n    == IF filterRaises THEN nAll ELSE nAll + hits
           next == NextTerm(CurBird, term + 1)
           brk  == ~filterRaises /\ n >= MinCandidates
       IN  /\ nAll' = n
           /\ pendingReq' = (filterRaises \/ brk)      \* time.sleep otherwise
           /\ IF brk \/ next > NumTerms
              THEN pc' = "score" /\ term' = term
              ELSE pc' = "search" /\ term' = next
    /\ UNCHANGED <<inputVars, unitVars, startVars, askVars, ckptVars, files, i, progress,
                   cands, k, result, exitCode, outcome, writes, acquired,
                   endReason, ended>>

----------------------------------------------------------------------------
(* fetch_bird_image, lines 369-414 *)

\* The locals of the fetcher's frames are gone.
DropLocals == term' = 0 /\ nAll' = 0 /\ cands' = 0 /\ k' = 0

\* fetch_bird_image returns a filename to main, which records it next.
ReturnFile ==
    /\ pc' = "record"
    /\ result' = "file"
    /\ acquired' = acquired \cup {CurName}
    /\ DropLocals

\* fetch_bird_image returns None.
ReturnNone ==
    /\ pc' = "record"
    /\ result' = "null"
    /\ acquired' = acquired
    /\ DropLocals

\* A loop that gives the species up at the first candidate that fails.
GiveUp == ReturnNone

\* the candidate yielded nothing: the loop of line 381 goes to the next one, or
\* falls out of the loop and line 414 returns None
NextCandidate ==
    IF k + 1 > cands
    THEN ReturnNone
    ELSE /\ pc' = "resolve"
         /\ k' = k + 1
         /\ UNCHANGED <<term, nAll, cands, result, acquired>>

\* Line 105 and lines 375-381: _deduplicate_and_score_results, then the slice.
\*   unique  number of distinct titles among all_results, counted up to 3
\*   raises  the scoring raised (a hit whose 'size' is not a number, line 205);
\*           line 375 is outside every try of fetch_bird_image, so the
\*           exception reaches the `except Exception` of main, line 634
ScoreResults(unique, raises) ==
    /\ pc = "score"
    /\ raises => nAll > 0
    /\ IF nAll = 0 THEN unique = 0 ELSE unique \in 1..TopN
    /\ raises => unique = 1
    /\ IF raises
       THEN /\ pc' = "finally"
            /\ endReason' = "exception"
            /\ DropLocals
            /\ UNCHANGED <<result, acquired>>
       ELSE IF unique = 0
       THEN /\ ReturnNone                   \* line 378
            /\ UNCHANGED endReason
       ELSE /\ cands' = unique              \* search_results[:3]
            /\ k' = 1
            /\ pc' = "resolve"
            /\ UNCHANGED <<term, nAll, result, acquired, endReason>>
    /\ UNCHANGED <<inputVars, unitVars, startVars, askVars, ckptVars, files, i, progress,
                   exitCode, outcome, writes, contacted, ended, pendingReq>>

\* get_image_info and the checks of lines 383-400.
ResolveFates == {"notfound", "nourl", "small", "large", "ok"}
ResolveCandidate(fate) ==
    /\ pc = "resolve"
    /\ fate \in ResolveFates
    /\ Request
    /\ pendingReq' = TRUE                    \* no sleep on `continue`
    /\ IF fate = "ok"
       THEN /\ pc' = "download"
            /\ UNCHANGED <<fetchVars, acquired>>
       ELSE NextCandidate
    /\ UNCHANGED <<inputVars, unitVars, startVars, askVars, ckptVars, files, i, progress,
                   exitCode, outcome, writes, endReason, ended>>

----------------------------------------------------------------------------
(* download_and_process_image and the overwrite arbiter, lines 241-367 *)

AskAnswers == {"y", "a", "n", "other", "eof"}

\* _should_overwrite_files: "save", "keep", or "raise" (input() raised EOFError)
\*   answer  what input() returns under the 'ask' policy
\*   better  value of _is_new_image_better under the 'better' policy
_should_overwrite_files(name, overwrite_policy, answer, better) ==
    IF ~FilesExist(name) THEN "save"
    ELSE CASE overwrite_policy = "never"  -> "keep"
           [] overwrite_policy = "always" -> "save"
           [] overwrite_policy = "ask" ->
                CASE answer = "a"   -> "save"
                  [] answer = "n"   -> "keep"
                  [] answer = "y"   -> "save"
                  [] answer = "eof" -> "raise"
                  [] OTHER          -> "keep"
           [] overwrite_policy = "better" -> IF better THEN "save" ELSE "keep"
           [] OTHER -> "keep"

\* input() is called: files exist and the policy passed in is 'ask'
Prompts(name, overwrite_policy) == FilesExist(name) /\ overwrite_policy = "ask"

\* The policy main passes to fetch_bird_image for every species (line 620).
PolicyInForce == args.overwrite

NetFates  == {"error", "small", "ok"}
DiskFates == {"ok", "webpFail", "jpgFail"}

\* download_and_process_image for candidate k, and what fetch_bird_image does
\* with its result (lines 403-407).
\*   net   "error": the GET or the decode raised; "small": below MIN_IMAGE_SIZE
\*   disk  fate of the two img.save calls (a failed save of a new file leaves
\*         no file behind)
DownloadAndProcess(net, answer, better, disk) ==
    /\ pc = "download"
    /\ net \in NetFates /\ answer \in AskAnswers /\ better \in BOOLEAN
    /\ disk \in DiskFates
    \* inputs that are not read are fixed, so that each case is taken once
    /\ (net # "ok" \/ ~Prompts(CurName, PolicyInForce)) => answer = "other"
    /\ (net # "ok" \/ ~FilesExist(CurName) \/ PolicyInForce # "better") => ~better
    /\ (net # "ok" \/ _should_overwrite_files(CurName, PolicyInForce, answer, better)
                         # "save") => disk = "ok"
    /\ Request
    /\ LET name     == CurName
           prompted == net = "ok" /\ Prompts(name, PolicyInForce)
           decision == _should_overwrite_files(name, PolicyInForce, answer, better)
           saved    == net = "ok" /\ decision = "save"
           kept     == net = "ok" /\ decision = "keep"
       IN  /\ files' = IF saved /\ disk = "ok"
                          THEN files \cup {WebpName(name), JpgName(name)}
                       ELSE IF saved /\ disk = "jpgFail"
                          THEN files \cup {WebpName(name)}
                       ELSE files
           /\ fetcherPolicy' = IF prompted /\ answer = "a" THEN "always"
                               ELSE IF prompted /\ answer = "n" THEN "never"
                               ELSE fetcherPolicy
           /\ sticky' = IF prompted /\ sticky.answer = "none" /\ answer \in {"a", "n"}
                        THEN [answer |-> answer, at |-> i] ELSE sticky
           /\ laterPrompt' = (laterPrompt \/ (/\ prompted
                                              /\ sticky.answer # "none"
                                              /\ sticky.at < i))
           /\ IF kept \/ (saved /\ disk = "ok")
              THEN /\ ReturnFile
                   /\ pendingReq' = TRUE
              ELSE /\ NextCandidate
                   /\ pendingReq' = FALSE          \* time.sleep, line 407
    /\ UNCHANGED <<inputVars, unitVars, startVars, ckptVars, i, progress, exitCode, outcome,
                   writes, endReason, ended>>

----------------------------------------------------------------------------
(* main(): recording the outcome, checkpoints, termination *)

\* line 624
CheckpointDue(idx) == (idx + 1) % CheckpointEvery = 0

\* lines 621-629: record, checkpoint every tenth index, sleep
RecordOutcome(fate) ==
    /\ pc = "record"
    /\ fate \in writeFates
    /\ ~CheckpointDue(i) => fate = "ok"
    /\ LET name  == CurName
           entry == IF result = "file" THEN WebpName(name) ELSE <<>>
           prog  == Assign(progress, name, entry)
           wrote == CheckpointDue(i) /\ fate = "ok"
       IN  /\ progress' = prog
           /\ writes' = [writes EXCEPT ![name] = @ + 1]
           /\ outcome' = [outcome EXCEPT
                             ![name] = IF result = "file" THEN "DONE" ELSE "FAILED"]
           /\ ledgerFile' = IF CheckpointDue(i) THEN save_progress(prog, fate)
                            ELSE ledgerFile
           /\ unsaved' = IF wrote THEN 0 ELSE unsaved + 1
           /\ durable' = IF wrote THEN prog ELSE durable
    /\ pendingReq' = FALSE
    /\ i' = i + 1
    /\ pc' = "loop"
    /\ result' = "none"
    /\ UNCHANGED <<inputVars, unitVars, startVars, askVars, files, term, nAll, cands, k,
                   exitCode, contacted, acquired, endReason, ended>>

\* the for loop is exhausted: control reaches the finally clause
LoopExhausted ==
    /\ pc = "loop"
    /\ i = Len(birds)
    /\ pc' = "finally"
    /\ endReason' = "exhausted"
    /\ UNCHANGED <<inputVars, unitVars, startVars, askVars, ckptVars, files, i, progress,
                   fetchVars, exitCode, outcome, writes, contacted, acquired,
                   ended, pendingReq>>

\* KeyboardInterrupt anywhere in the loop: except clause of line 631
Interrupt ==
    /\ Running
    /\ pc' = "finally"
    /\ endReason' = "interrupt"
    /\ DropLocals
    /\ result' = "none"
    /\ UNCHANGED <<inputVars, unitVars, startVars, askVars, ckptVars, files, i, progress,
                   exitCode, outcome, writes, contacted, acquired, ended,
                   pendingReq>>

\* finally clause, lines 637-654: final save_progress, then return 0
Finalize(fate) ==
    /\ pc = "finally"
    /\ fate \in writeFates
    /\ ledgerFile' = save_progress(progress, fate)
    /\ unsaved' = IF fate = "ok" THEN 0 ELSE unsaved
    /\ durable' = IF fate = "ok" THEN progress ELSE durable
    /\ ended' = IF fate = "ok" /\ endReason = "exhausted" THEN "complete" ELSE "other"
    /\ exitCode' = 0
    /\ pc' = "exited"
    /\ UNCHANGED <<inputVars, unitVars, startVars, askVars, files, i, progress, fetchVars,
                   outcome, writes, contacted, acquired, endReason, pendingReq>>

\* A second KeyboardInterrupt while the finally clause runs save_progress: it is
\* no Exception, so save_progress does not catch it and the process ends with
\* the file as the interrupted write left it.
\* 130 is the status of a process ended by SIGINT.
FinalizeInterrupted(fate) ==
    /\ pc = "finally"
    /\ fate \in {"truncated", "unopened"}
    /\ ledgerFile' = save_progress(progress, fate)
    /\ ended' = "other"
    /\ exitCode' = 130
    /\ pc' = "exited"
    /\ UNCHANGED <<inputVars, unitVars, startVars, askVars, files, i, progress, fetchVars,
                   outcome, writes, contacted, acquired, endReason, unsaved,
                   durable, pendingReq>>

\* The process is killed (SIGKILL, power loss) outside a write of the ledger.
Kill ==
    /\ Running \/ pc = "finally"
    /\ pc' = "idle"
    /\ exitCode' = -1
    /\ ended' = "other"
    /\ NoProcess
    /\ UNCHANGED <<inputVars, unitVars, diskVars, runs, durable>>

\* The process is killed while save_progress is writing: the file was
\* truncated by open(..., 'w') and the dump is incomplete.
KillDuringSave ==
    /\ \/ pc = "record" /\ CheckpointDue(i)
       \/ pc = "finally"
    /\ ledgerFile' = CorruptFile
    /\ pc' = "idle"
    /\ exitCode' = -1
    /\ ended' = "other"
    /\ NoProcess
    /\ UNCHANGED <<inputVars, unitVars, files, runs, durable>>

\* Between runs somebody removes an artifact from OUTPUT_DIR (observed only
\* by a later run, so it is left out once no run can follow).
RemoveArtifact(f) ==
    /\ Stopped
    /\ runs < MaxRuns
    /\ f \in files
    /\ files' = files \ {f}
    /\ UNCHANGED <<inputVars, unitVars, startVars, askVars, ckptVars, procVars, outcome,
                   writes, contacted, acquired, endReason, ended, pendingReq>>

----------------------------------------------------------------------------

Next ==
    \/ \E a \in argSpace : StartRun(a)
    \/ SkipSpecies
    \/ BeginFetch
    \/ \E hits \in {0, SearchLimit}, raises \in BOOLEAN : SearchTerm(hits, raises)
    \/ \E unique \in 0..TopN, raises \in BOOLEAN : ScoreResults(unique, raises)
    \/ \E fate \in ResolveFates : ResolveCandidate(fate)
    \/ \E net \in NetFates, answer \in AskAnswers, better \in BOOLEAN,
          disk \in DiskFates : DownloadAndProcess(net, answer, better, disk)
    \/ \E fate \in SaveFates : RecordOutcome(fate)
    \/ LoopExhausted
    \/ Interrupt
    \/ \E fate \in SaveFates : Finalize(fate)
    \/ \E fate \in SaveFates : FinalizeInterrupted(fate)
    \/ Kill
    \/ KillDuringSave
    \/ \E f \in files : RemoveArtifact(f)

\* From a fresh installation, with one species that has remote media.
Spec == Init /\ [][Next]_vars

----------------------------------------------------------------------------
(* Further scenarios: the same program from other starting points *)

AllArtifacts(cat) ==
    UNION {{WebpName(n), JpgName(n)} : n \in NamesOf(cat)}

FillerNames == {n \in NamesOf(LongCatalog) : n \notin RemoteIndexed}

\* A ledger holding one recorded failure, as a run with --species leaves it.
OneFailure(name) == [s \in {name} |-> <<>>]

CadenceArgs == {a \in MainArgs : a.overwrite = "better" /\ ~a.no_resume}

\* One run over the long catalog, the ledger file empty or holding one prior
\* failure, every write of the ledger succeeding.
InitCadence ==
    /\ catalog = LongCatalog
    /\ argSpace = CadenceArgs
    /\ writeFates = {"ok"}
    /\ ledgerFile \in {NoFile} \cup {OkFile(OneFailure(n)) : n \in FillerNames}
    /\ files \in {{}, {JpgName(LongCatalog[1].scientific_name)}}
    /\ durable = ledgerFile.data
    /\ runs = MaxRuns - 1
    /\ ended = "other"
    /\ InitProcess
    /\ NoCall

SpecCadence == InitCadence /\ [][Next]_vars

AllDone(cat) == [s \in NamesOf(cat) |-> WebpName(s)]

AskArgs == {a \in MainArgs : a.overwrite = "ask" /\ ~a.no_resume}

\* One interactive run over two species whose artifacts are already on disk.
InitAsk ==
    /\ catalog = LiveCatalog
    /\ argSpace = AskArgs
    /\ writeFates = {"ok"}
    /\ ledgerFile = OkFile(AllDone(LiveCatalog))
    /\ files = AllArtifacts(LiveCatalog)
    /\ durable = ledgerFile.data
    /\ runs = MaxRuns - 1
    /\ ended = "other"
    /\ InitProcess
    /\ NoCall

SpecAsk == InitAsk /\ [][Next]_vars

----------------------------------------------------------------------------
(* Functions of the fetcher called on their own *)

\* The program is not running: everything but the call stays as it is.
IdleProgram ==
    /\ catalog = MainCatalog
    /\ argSpace = MainArgs
    /\ writeFates = SaveFates
    /\ ledgerFile = NoFile
    /\ files = {}
    /\ durable = EmptyLedger
    /\ runs = 0
    /\ ended = "nothing"
    /\ InitProcess

Return(value) == returned' = [done |-> TRUE, value |-> value]

(* _is_new_image_better, lines 338-367 *)

\* new_img.size[0] * new_img.size[1]
Pixels(img) == img.w * img.h

\* len(new_img.tobytes()): the raw pixel data, one byte per band and pixel
RawBytes(img) == img.w * img.h * img.bands

\*   new_img   the normalized download: size, bands (1 for 'L', 3 for 'RGB')
\*             and `encoded`, the size the saved file would have (not read)
\*   existing  the file at existing_path: "absent", "unreadable" (Image.open
\*             raises, caught at line 365) or "image" with its size and st_size
\* 1.25 and 1.1 are compared in integers: n > m * 1.25 iff 4n > 5m, and
\* n > m * 1.1 iff 10n > 11m for integers n and m.
_is_new_image_better(new_img, existing) ==
    IF existing.state = "absent" THEN TRUE
    ELSE IF existing.state = "unreadable" THEN FALSE
    ELSE IF 4 * Pixels(new_img) > 5 * Pixels(existing) THEN TRUE
    ELSE IF 10 * RawBytes(new_img) > 11 * existing.st_size THEN TRUE
    ELSE FALSE

\* Sizes of normalized images and of files on disk that the comparison meets.
Sides     == {200, 210, 250, 512}
FileSizes == {5000, 60000, 150000}

NewImages == [w : Sides, h : {200, 512}, bands : {1, 3}, encoded : FileSizes]
ExistingFiles ==
    [state : {"image"}, w : Sides, h : {200, 512}, st_size : FileSizes]
    \cup [state : {"absent", "unreadable"}, w : {200}, h : {200},
          st_size : {5000}]

InitBetter ==
    /\ IdleProgram
    /\ callArgs \in [fn : {"_is_new_image_better"}, new_img : NewImages,
                     existing : ExistingFiles]
    /\ returned = [done |-> FALSE]

CallBetter ==
    /\ callArgs.fn = "_is_new_image_better"
    /\ ~returned.done
    /\ Return(_is_new_image_better(callArgs.new_img, callArgs.existing))
    /\ UNCHANGED <<programVars, callArgs>>

SpecBetter == InitBetter /\ [][CallBetter]_vars

(* Normalization in download_and_process_image, lines 254-268 *)

MIN_IMAGE_SIZE == 200      \* (200, 200)
MAX_IMAGE_SIZE == 512      \* (512, 512)

Abs(n) == IF n < 0 THEN -n ELSE n

\* ImageOps.exif_transpose: orientations 5 to 8 exchange width and height
exif_transpose(size, swaps) ==
    IF swaps THEN [w |-> size.h, h |-> size.w] ELSE size

\* Image.thumbnail((box, box)) of Pillow: the image is left alone when it
\* fits, otherwise the longer side becomes `box` and the other side is
\* box * shorter / longer, rounded down or up to the neighbour whose aspect
\* ratio is nearer to the original (down on a tie), and at least 1.
thumbnail(size, box) ==
    IF box >= size.w /\ box >= size.h THEN size
    ELSE LET long  == IF size.w <= size.h THEN size.h ELSE size.w
             short == IF size.w <= size.h THEN size.w ELSE size.h
             lo    == (box * short) \div long
             hi    == IF lo * long = box * short THEN lo ELSE lo + 1
             \* |aspect - n / box| for the width, |aspect - box / n| for the
             \* height, brought to a common denominator
             pick  == IF size.w <= size.h
                      THEN IF Abs(box * short - lo * long)
                               <= Abs(box * short - hi * long) THEN lo ELSE hi
                      ELSE IF lo = 0 THEN lo
                      ELSE IF Abs(long * lo - box * short) * hi
                               <= Abs(long * hi - box * short) * lo
                           THEN lo ELSE hi
             other == IF pick < 1 THEN 1 ELSE pick
         IN  IF size.w <= size.h THEN [w |-> other, h |-> box]
             ELSE [w |-> box, h |-> other]

\* Lines 254-268: None when the decoded image is below the minimum, else the
\* size of the image that is saved.
Normalize(size, swaps) ==
    IF size.w < MIN_IMAGE_SIZE \/ size.h < MIN_IMAGE_SIZE
    THEN [ok |-> FALSE, w |-> 0, h |-> 0]
    ELSE LET out == thumbnail(exif_transpose(size, swaps), MAX_IMAGE_SIZE)
         IN  [ok |-> TRUE, w |-> out.w, h |-> out.h]

\* Decoded sizes: below, at and above the minimum and the bounding box.
DecodedSides == {100, 199, 200, 300, 512, 513, 600, 1200, 2000}

InitNormalize ==
    /\ IdleProgram
    /\ callArgs \in [fn : {"normalize"}, size : [w : DecodedSides, h : DecodedSides],
                     swaps : BOOLEAN]
    /\ returned = [done |-> FALSE]

CallNormalize ==
    /\ callArgs.fn = "normalize"
    /\ ~returned.done
    /\ Return(Normalize(callArgs.size, callArgs.swaps))
    /\ UNCHANGED <<programVars, callArgs>>

SpecNormalize == InitNormalize /\ [][CallNormalize]_vars

(* Filtering and ranking of search hits, lines 145-213 *)

\* _filter_bird_images, lines 148-155
bad_keywords ==
    << <<"e", "g", "g">>, <<"e", "g", "g", "s">>, <<"n", "e", "s", "t">>,
       <<"n", "e", "s", "t", "i", "n", "g">>, <<"m", "a", "p">>,
       <<"d", "i", "s", "t", "r", "i", "b", "u", "t", "i", "o", "n">>,
       <<"r", "a", "n", "g", "e">>,
       <<"f", "o", "o", "t", "p", "r", "i", "n", "t">>,
       <<"t", "r", "a", "c", "k">>, <<"t", "r", "a", "c", "k", "s">>,
       <<"f", "e", "a", "t", "h", "e", "r">>,
       <<"f", "e", "a", "t", "h", "e", "r", "s">>,
       <<"s", "k", "e", "l", "e", "t", "o", "n">>,
       <<"d", "i", "a", "g", "r", "a", "m">>, <<"c", "h", "a", "r", "t">>,
       <<"g", "r", "a", "p", "h">>,
       <<"i", "l", "l", "u", "s", "t", "r", "a", "t", "i", "o", "n">>,
       <<"d", "r", "a", "w", "i", "n", "g">>,
       <<"p", "a", "i", "n", "t", "i", "n", "g">>,
       <<"m", "u", "s", "e", "u", "m">>,
       <<"s", "p", "e", "c", "i", "m", "e", "n">>,
       <<"s", "k", "u", "l", "l">>, <<"b", "o", "n", "e">>,
       <<"w", "i", "n", "g">>, <<"t", "a", "i", "l">>,
       <<"b", "e", "a", "k">>, <<"h", "a", "b", "i", "t", "a", "t">>,
       <<"e", "n", "v", "i", "r", "o", "n", "m", "e", "n", "t">>,
       <<"l", "a", "n", "d", "s", "c", "a", "p", "e">>,
       <<"m", "i", "g", "r", "a", "t", "i", "o", "n">>,
       <<"c", "a", "l", "l">>, <<"s", "o", "n", "g">>,
       <<"s", "o", "u", "n", "d">>, <<"a", "u", "d", "i", "o">>,
       <<"s", "p", "e", "c", "t", "r", "o", "g", "r", "a", "m">>,
       <<"a", "n", "a", "l", "y", "s", "i", "s">>,
       <<"s", "t", "u", "d", "y">>,
       <<"r", "e", "s", "e", "a", "r", "c", "h">> >>

\* _filter_bird_images, lines 158-162
good_keywords(scientific_name) ==
    << <<"m", "a", "l", "e">>, <<"f", "e", "m", "a", "l", "e">>,
       <<"a", "d", "u", "l", "t">>,
       <<"j", "u", "v", "e", "n", "i", "l", "e">>,
       <<"b", "r", "e", "e", "d", "i", "n", "g">>,
       <<"p", "l", "u", "m", "a", "g", "e">>,
       <<"p", "o", "r", "t", "r", "a", "i", "t">>,
       <<"p", "h", "o", "t", "o">>,
       <<"p", "h", "o", "t", "o", "g", "r", "a", "p", "h">>,
       <<"b", "i", "r", "d">>, <<"f", "l", "y", "i", "n", "g">>,
       <<"p", "e", "r", "c", "h", "e", "d">>,
       <<"s", "i", "t", "t", "i", "n", "g">>,
       <<"s", "t", "a", "n", "d", "i", "n", "g">>,
       <<"f", "e", "e", "d", "i", "n", "g">>,
       <<"f", "o", "r", "a", "g", "i", "n", "g">> >>
    \o <<MapLower(scientific_name)>>

\* _deduplicate_and_score_results, line 201
name_patterns ==
    << <<"m", "a", "l", "e">>, <<"f", "e", "m", "a", "l", "e">>,
       <<"a", "d", "u", "l", "t">>,
       <<"p", "o", "r", "t", "r", "a", "i", "t">> >>

\* any(word in text for word in words)
ContainsAny(words, text) == \E n \in 1..Len(words) : IsSubstring(words[n], text)

\* sum(1 for word in words if word in title or word in snippet)
CountIn(words, title, snippet) ==
    Cardinality({n \in 1..Len(words) :
                    IsSubstring(words[n], title) \/ IsSubstring(words[n], snippet)})

\* line 170: the hit holds a bad keyword in its title or its snippet
HasBadKeyword(r) ==
    \/ ContainsAny(bad_keywords, MapLower(r.title))
    \/ ContainsAny(bad_keywords, MapLower(r.snippet))

\* Quality score of a hit, line 174.
QualityOf(r, scientific_name) ==
    CountIn(good_keywords(scientific_name), MapLower(r.title), MapLower(r.snippet))

\* A filter that lets a hit with a bad keyword pass when it has a good one.
FilterUnlessGood(results, scientific_name) ==
    LET Keep(r) == ~HasBadKeyword(r) \/ QualityOf(r, scientific_name) > 0
        kept    == SelectSeq(results, Keep)
    IN  [n \in 1..Len(kept) |->
            [title |-> kept[n].title, snippet |-> kept[n].snippet,
             size |-> kept[n].size,
             quality_score |-> QualityOf(kept[n], scientific_name)]]

\* lines 164-179: hits with a bad keyword are left out, the others get their
\* quality_score
_filter_bird_images(results, scientific_name) ==
    LET Keep(r) == ~HasBadKeyword(r)
        kept    == SelectSeq(results, Keep)
    IN  [n \in 1..Len(kept) |->
            [title |-> kept[n].title, snippet |-> kept[n].snippet,
             size |-> kept[n].size,
             quality_score |-> QualityOf(kept[n], scientific_name)]]

RECURSIVE UniqueLast(_, _)
\* A deduplication that keeps the last result of every title.
UniqueLast(results, seen_titles) ==
    IF results = <<>> THEN <<>>
    ELSE IF \E n \in 2..Len(results) : results[n].title = Head(results).title
         THEN UniqueLast(Tail(results), seen_titles)
         ELSE <<Head(results)>> \o UniqueLast(Tail(results), seen_titles)

RECURSIVE Unique(_, _)
\* lines 183-189: the first result of every title, in the order of `results`
Unique(results, seen_titles) ==
    IF results = <<>> THEN <<>>
    ELSE IF Head(results).title \in seen_titles
         THEN Unique(Tail(results), seen_titles)
         ELSE <<Head(results)>>
              \o Unique(Tail(results), seen_titles \cup {Head(results).title})

NameBoost    == 10         \* line 198
PatternBoost == 5          \* line 202
SizeCap      == 5          \* line 205: at most 5 points for size
Million      == 1000000    \* line 205
NullSize     == -1         \* a 'size' that is no number (JSON null)

\* lines 193-208, in millionths of a point, so that size / 1000000 is exact
FinalScore(r, scientific_name) ==
    LET title == MapLower(r.title)
        boost == (IF IsSubstring(MapLower(scientific_name), title)
                  THEN NameBoost ELSE 0)
                 + (IF ContainsAny(name_patterns, title) THEN PatternBoost ELSE 0)
        size_score == IF r.size < SizeCap * Million THEN r.size
                      ELSE SizeCap * Million
    IN  (r.quality_score + boost) * Million + size_score

\* A sort key without the size.
KeyBelowScoreOnly(a, b) == a.final_score < b.final_score

\* the sort key (final_score, size) of line 212
KeyBelow(a, b) ==
    \/ a.final_score < b.final_score
    \/ a.final_score = b.final_score /\ a.size < b.size

RECURSIVE InsertDesc(_, _)
InsertDesc(x, s) ==
    IF s = <<>> THEN <<x>>
    ELSE IF KeyBelow(Head(s), x) THEN <<x>> \o s
    ELSE <<Head(s)>> \o InsertDesc(x, Tail(s))

RECURSIVE SortedDesc(_)
\* sorted(..., reverse=True): descending by key, equal keys in their old order
SortedDesc(s) ==
    IF s = <<>> THEN <<>>
    ELSE InsertDesc(s[Len(s)], SortedDesc(SubSeq(s, 1, Len(s) - 1)))

\* lines 181-213; [raised |-> TRUE] when line 205 raises on a size that is no
\* number
_deduplicate_and_score_results(results, scientific_name) ==
    LET unique_results == Unique(results, {})
        scored == [n \in 1..Len(unique_results) |->
                     [title |-> unique_results[n].title,
                      snippet |-> unique_results[n].snippet,
                      size |-> unique_results[n].size,
                      quality_score |-> unique_results[n].quality_score,
                      final_score |-> FinalScore(unique_results[n],
                                                 scientific_name)]]
    IN  IF \E n \in 1..Len(unique_results) : unique_results[n].size = NullSize
        THEN [raised |-> TRUE, list |-> <<>>]
        ELSE [raised |-> FALSE, list |-> SortedDesc(scored)]

\* Two species: a plain name, and a name that holds the bad keyword 'call'.
PlainName   == <<"P", "i", "c", "a", " ", "p", "i", "c", "a">>
CallingName == <<"C", "a", "l", "l", "i", "o", "p", "e", " ", "c", "a", "l", "l", "i", "o", "p", "e">>
RankNames   == {PlainName, CallingName}

\* Titles that pass the title gate of _search_commons_images: without the
\* scientific name, and the same titles with the name appended.
TitleBodies == {<<"a", "v", "e", "s">>,
                <<"A", "v", "e", "s">>,
                <<"B", "i", "r", "d", " ", "m", "a", "l", "e">>,
                <<"B", "I", "R", "D", " ", "e", "g", "g">>}
TitlesFor(name) == TitleBodies \cup {b \o <<" ">> \o name : b \in TitleBodies}
Snippets == {<<>>, <<"n", "e", "s", "t">>}
HitSizes == {0, 5 * Million, 6 * Million, NullSize}

HitsFor(name) == [title : TitlesFor(name), snippet : Snippets, size : HitSizes]

MaxHits == 2

SeqsUpTo(set, n) == UNION {[1..m -> set] : m \in 0..n}

InitRank ==
    /\ IdleProgram
    /\ \E name \in RankNames : \E hits \in SeqsUpTo(HitsFor(name), MaxHits) :
          callArgs = [fn |-> "search_bird_images", scientific_name |-> name,
                      results |-> hits]
    /\ returned = [done |-> FALSE]

\* The end of search_bird_images: the hits of a search are filtered (line 96),
\* collected, then deduplicated, scored and sorted (line 105).
CallRank ==
    /\ callArgs.fn = "search_bird_images"
    /\ ~returned.done
    /\ LET all_results == _filter_bird_images(callArgs.results,
                                              callArgs.scientific_name)
       IN  Return(_deduplicate_and_score_results(all_results,
                                                 callArgs.scientific_name))
    /\ UNCHANGED <<programVars, callArgs>>

SpecRank == InitRank /\ [][CallRank]_vars

(* _sanitize_filename on the names of two catalog rows, lines 302-308 *)

\* Scientific names as load_birds_from_csv yields them: not empty, stripped.
NameLetters == {"A", "a", " ", "."}
MaxNameLen  == 3
CatalogNames ==
    {s \in SeqsUpTo(NameLetters, MaxNameLen) :
        Len(s) > 0 /\ s[1] # " " /\ s[Len(s)] # " "}

InitNames ==
    /\ IdleProgram
    /\ callArgs \in [fn : {"_sanitize_filename"}, first : CatalogNames,
                     second : CatalogNames]
    /\ returned = [done |-> FALSE]

\* safe_name of line 271 for each of the two species
CallSanitize ==
    /\ callArgs.fn = "_sanitize_filename"
    /\ ~returned.done
    /\ Return(<<_sanitize_filename(callArgs.first),
                _sanitize_filename(callArgs.second)>>)
    /\ UNCHANGED <<programVars, callArgs>>

SpecNames == InitNames /\ [][CallSanitize]_vars

(* The exits of main: one run, with and without a catalog and a match *)

\* --species values: one that matches the first species, one that matches
\* nothing
MatchingFilter == <<"a", " ", "A">>
MissingFilter  == <<"z">>

ExitArgs ==
    {a \in ArgsOver({NoLimit}, {NoFilter, MatchingFilter, MissingFilter}) :
        a.overwrite = "better" /\ ~a.no_resume /\ ~a.force_redownload}

\* One run; the CSV file is unreadable or empty of species, or holds the catalog.
InitExit ==
    /\ catalog \in {<<>>, MainCatalog}
    /\ argSpace = ExitArgs
    /\ writeFates = SaveFates
    /\ ledgerFile \in {NoFile} \cup {OkFile(OneFailure(n)) : n \in NamesOf(MainCatalog)}
    /\ files \in {{}, {JpgName(MainCatalog[1].scientific_name)}}
    /\ durable = ledgerFile.data
    /\ runs = MaxRuns - 1
    /\ ended = "other"
    /\ InitProcess
    /\ NoCall

SpecExit == InitExit /\ [][Next]_vars

(* _search_commons_images for one query variant, lines 107-143 *)

\* search_terms of search_bird_images, lines 77-87
search_terms(scientific_name, common_name) ==
    << scientific_name \o <<" ">> \o <<"b", "i", "r", "d">> \o <<" ">>
                       \o <<"p", "h", "o", "t", "o">>,
       scientific_name \o <<" ">> \o <<"m", "a", "l", "e">>,
       scientific_name \o <<" ">> \o <<"f", "e", "m", "a", "l", "e">>,
       scientific_name \o <<" ">> \o <<"a", "d", "u", "l", "t">>,
       scientific_name \o <<" ">> \o <<"p", "o", "r", "t", "r", "a", "i", "t">>,
       scientific_name,
       scientific_name \o <<" ">> \o <<"b", "i", "r", "d">>,
       IF common_name # <<>> THEN common_name \o <<" ">> \o <<"b", "i", "r", "d">>
       ELSE <<>>,
       IF common_name # <<>> THEN common_name ELSE <<>> >>

\* line 131: the words looked for in the lower-cased title
gate_words(search_term) ==
    << <<"b", "i", "r", "d">>, <<"a", "v", "e", "s">>, MapLower(search_term) >>

\* lines 128-137 on a response that holds `items`; lines 141-143 return [] when
\* the request or the decoding raised
_search_commons_images(search_term, response) ==
    IF response.state = "error" THEN <<>>
    ELSE LET Gate(item) == ContainsAny(gate_words(search_term), MapLower(item.title))
         IN  SelectSeq(response.items, Gate)

CommonName == <<"M", "a", "g", "p", "i", "e">>

\* Titles the remote index may hold for the species: the scientific name in
\* two spellings and with a suffix, the English name, the generic words, and
\* a title with none of them.
RawTitles ==
    { PlainName \o <<".", "j", "p", "g">>,
      <<"P", "I", "C", "A", " ", "p", "i", "c", "a", " ", "m", "a", "l", "e">>,
      CommonName \o <<".", "j", "p", "g">>,
      <<"A", "v", "e", "s">>,
      <<"S", "o", "n", "g", "b", "i", "r", "d">>,
      <<"C", "o", "r", "v", "u", "s">> }

\* A failed request, or a response with up to MaxHits items
Responses ==
    {[state |-> "error", items |-> <<>>]}
    \cup [state : {"ok"},
          items : SeqsUpTo([title : RawTitles, snippet : {<<>>}, size : {0}],
                           MaxHits)]

InitGate ==
    /\ IdleProgram
    /\ callArgs \in [fn : {"_search_commons_images"},
                     scientific_name : {PlainName},
                     common_name : {CommonName},
                     variant : 1..NumTerms,
                     response : Responses]
    /\ returned = [done |-> FALSE]

\* line 95 for one non-empty term of the list
CallGate ==
    /\ callArgs.fn = "_search_commons_images"
    /\ ~returned.done
    /\ LET terms == search_terms(callArgs.scientific_name, callArgs.common_name)
       IN  /\ terms[callArgs.variant] # <<>>
           /\ Return(_search_commons_images(terms[callArgs.variant],
                                            callArgs.response))
    /\ UNCHANGED <<programVars, callArgs>>

SpecGate == InitGate /\ [][CallGate]_vars

(* The candidate loop of fetch_bird_image on a given ranked list, lines 381-414 *)

MaxBytes == 50 * 1024 * 1024     \* line 399

\* line 394
TooSmall(info) == info.width < MIN_IMAGE_SIZE \/ info.height < MIN_IMAGE_SIZE

\* A size test that lets everything pass.
NeverTooLarge(info) == FALSE

\* line 399
TooLarge(info) == info.size > MaxBytes

\* What one iteration does with the answer of get_image_info, lines 383-400:
\*   "skip"      one of the `continue`s
\*   "raise"     the comparison of line 399 raises on a size that is no number;
\*               the except of line 409 continues
\*   "download"  line 403 is reached
CheckOf(info) ==
    IF info.state = "none" THEN "skip"               \* line 384
    ELSE IF ~info.url THEN "skip"                     \* line 388
    ELSE IF TooSmall(info) THEN "skip"
    ELSE IF info.size = NullSize THEN "raise"
    ELSE IF TooLarge(info) THEN "skip"
    ELSE "download"

RECURSIVE TryFrom(_, _, _)
\* The iterations from candidate n on.  `resolved` and `downloaded` list the
\* candidates for which get_image_info and download_and_process_image were
\* called; downloads[n] tells whether the download of candidate n yields a
\* filename.
TryFrom(n, infos, downloads) ==
    IF n > Len(infos)
    THEN [resolved |-> <<>>, downloaded |-> <<>>, value |-> "null"]   \* line 414
    ELSE LET rest == TryFrom(n + 1, infos, downloads)
         IN  IF CheckOf(infos[n]) # "download"
             THEN [resolved |-> <<n>> \o rest.resolved,
                   downloaded |-> rest.downloaded, value |-> rest.value]
             ELSE IF downloads[n]
             THEN [resolved |-> <<n>>, downloaded |-> <<n>>,
                   value |-> "file"]                                  \* line 405
             ELSE [resolved |-> <<n>> \o rest.resolved,
                   downloaded |-> <<n>> \o rest.downloaded, value |-> rest.value]

\* the loop over search_results[:3]
fetch_bird_image(infos, downloads) ==
    TryFrom(1, SubSeq(infos, 1, IF Len(infos) < TopN THEN Len(infos) ELSE TopN),
            downloads)

\* Answers of get_image_info: nothing, or an imageinfo record with or without
\* 'url', with sizes at both sides of the two thresholds
ImageInfos ==
    {[state |-> "none", url |-> FALSE, width |-> 0, height |-> 0, size |-> 0]}
    \cup [state : {"info"}, url : {TRUE},
          width : {MIN_IMAGE_SIZE - 1, MIN_IMAGE_SIZE},
          height : {MIN_IMAGE_SIZE - 1, MIN_IMAGE_SIZE},
          size : {MaxBytes, MaxBytes + 1, NullSize}]
    \cup {[state |-> "info", url |-> FALSE, width |-> MIN_IMAGE_SIZE,
           height |-> MIN_IMAGE_SIZE, size |-> MaxBytes]}

InitCandidates ==
    /\ IdleProgram
    /\ callArgs \in [fn : {"fetch_bird_image"},
                     infos : SeqsUpTo(ImageInfos, TopN),
                     downloads : [1..TopN -> BOOLEAN]]
    /\ returned = [done |-> FALSE]

CallFetch ==
    /\ callArgs.fn = "fetch_bird_image"
    /\ ~returned.done
    /\ Return(fetch_bird_image(callArgs.infos, callArgs.downloads))
    /\ UNCHANGED <<programVars, callArgs>>

SpecCandidates == InitCandidates /\ [][CallFetch]_vars

(* Runs with --limit and --species, from a fresh installation *)

\* --species value that matches the species without remote media only
FillerFilter == <<"f">>

\* --limit absent, 0 and 1
Limits == {NoLimit, 0, 1}

FlagArgs ==
    {a \in ArgsOver(Limits, {NoFilter, FillerFilter}) : a.overwrite = "better"}

\* Every write of the ledger succeeds.
InitFlags ==
    /\ catalog = MainCatalog
    /\ argSpace = FlagArgs
    /\ writeFates = {"ok"}
    /\ ledgerFile = NoFile
    /\ files = {}
    /\ durable = EmptyLedger
    /\ runs = 0
    /\ ended = "nothing"
    /\ InitProcess
    /\ NoCall

SpecFlags == InitFlags /\ [][Next]_vars

(* create_manifest as the finally clause calls it, lines 481-508 and 640 *)

\* The manifest dict of lines 483-500.  progress.get(name) is None for a
\* species without an entry: image_file <<>> with has_image FALSE stands for
\* it as for the empty filename.
ManifestOf(led, bs) ==
    [total_species     |-> Len(bs),
     \* len([f for f in progress.values() if f])
     downloaded_images |-> Cardinality({s \in DOMAIN led : led[s] # <<>>}),
     images |-> [s \in NamesOf(bs) |->
                    LET filename == IF s \in DOMAIN led THEN led[s] ELSE <<>>
                    IN  [image_file |-> filename, has_image |-> filename # <<>>]]]

\* lines 502-508: the file is written, or the write raises and is logged
create_manifest(led, bs, fate) ==
    IF fate = "ok" THEN [written |-> TRUE, manifest |-> ManifestOf(led, bs)]
    ELSE [written |-> FALSE]

\* Ledgers main may hold at the end of a run over the catalog: no entry, a
\* failure or a success for each species.
LedgersOver(names) ==
    UNION {[dom -> {"failed", "done"}] : dom \in SUBSET names}

InitManifest ==
    /\ IdleProgram
    /\ \E marks \in LedgersOver(NamesOf(MainCatalog)), lim \in Limits,
          flt \in {NoFilter, FillerFilter}, fate \in {"ok", "unopened"} :
          callArgs = [fn |-> "create_manifest",
                      progress |-> [s \in DOMAIN marks |->
                                      IF marks[s] = "done" THEN WebpName(s)
                                      ELSE <<>>],
                      limit |-> lim, species |-> flt, fate |-> fate]
    /\ returned = [done |-> FALSE]

\* main, lines 543-552 and 640: birds is the catalog after --species and
\* --limit, progress the ledger of the run
CallManifest ==
    /\ callArgs.fn = "create_manifest"
    /\ ~returned.done
    /\ LET a  == [DefaultArgs EXCEPT !.limit = callArgs.limit,
                                     !.species = callArgs.species]
           bs == ApplyLimit(SpeciesFilter(catalog, a), a)
       IN  Return(create_manifest(callArgs.progress, bs, callArgs.fate))
    /\ UNCHANGED <<programVars, callArgs>>

SpecManifest == InitManifest /\ [][CallManifest]_vars

(* One run that is neither interrupted nor killed *)

\* The steps of main and of the fetcher, without KeyboardInterrupt and kills.
ProcessStep ==
    \/ SkipSpecies
    \/ BeginFetch
    \/ \E hits \in {0, SearchLimit}, raises \in BOOLEAN : SearchTerm(hits, raises)
    \/ \E unique \in 0..TopN, raises \in BOOLEAN : ScoreResults(unique, raises)
    \/ \E fate \in ResolveFates : ResolveCandidate(fate)
    \/ \E net \in NetFates, answer \in AskAnswers, better \in BOOLEAN,
          disk \in DiskFates : DownloadAndProcess(net, answer, better, disk)
    \/ \E fate \in SaveFates : RecordOutcome(fate)
    \/ LoopExhausted
    \/ \E fate \in SaveFates : Finalize(fate)

Uninterrupted ==
    \/ \E a \in argSpace : StartRun(a)
    \/ ProcessStep

\* Default flags, every write of the ledger succeeding; the ledger file is
\* missing or holds one recorded failure.
InitUninterrupted ==
    /\ catalog = MainCatalog
    /\ argSpace = {DefaultArgs}
    /\ writeFates = {"ok"}
    /\ ledgerFile \in {NoFile} \cup {OkFile(OneFailure(n)) : n \in NamesOf(MainCatalog)}
    /\ files = {}
    /\ durable = ledgerFile.data
    /\ runs = MaxRuns - 1
    /\ ended = "other"
    /\ InitProcess
    /\ NoCall

\* Every request has a timeout (lines 120, 226, 245) and every other step is a
\* bounded computation, so a started process keeps taking steps.
SpecUninterrupted ==
    InitUninterrupted /\ [][Uninterrupted]_vars /\ WF_vars(ProcessStep)

----------------------------------------------------------------------------
(* Properties *)

Resuming == ~args.no_resume /\ ~args.force_redownload
Decided(s) == outcome[s] # "PENDING"
Attempted(s) == outcome[s] \in {"ACTIVE", "DONE", "FAILED"}

\* C1: in a run without --no-resume and without --force-redownload, a species
\* whose loaded ledger entry is non-empty and whose artifact is on disk is never
\* attempted: no request is issued for it and its ledger entry stays as loaded.
ResumeNeverReattempts ==
    Resuming =>
        \A s \in DOMAIN loaded :
            (loaded[s] # <<>> /\ FilesExistIn(files0, s)) =>
                /\ s \notin contacted
                /\ ~Attempted(s)
                /\ s \in DOMAIN progress
                /\ progress[s] = loaded[s]

\* C1 witness: a run that followed an interrupted or killed one has passed over
\* such a species and ended.
ResumeSkipSeen ==
    /\ Resuming
    /\ pc = "exited"
    /\ since = "other"
    /\ \E s \in DOMAIN loaded :
          loaded[s] # <<>> /\ FilesExistIn(files0, s) /\ outcome[s] = "SKIPPED"

\* C7: a species recorded DONE has exactly one ledger write in the run, a
\* non-empty entry, and an acquired candidate; a species recorded FAILED has
\* exactly one write, the empty entry and no acquired candidate; a skipped
\* species has no write and keeps its loaded entry.
OneEntryPerTerminal ==
    \A s \in Species :
        /\ outcome[s] = "DONE" =>
              /\ writes[s] = 1
              /\ s \in DOMAIN progress /\ progress[s] # <<>>
              /\ s \in acquired
        /\ outcome[s] = "FAILED" =>
              /\ writes[s] = 1
              /\ s \in DOMAIN progress /\ progress[s] = <<>>
              /\ s \notin acquired
        /\ outcome[s] \in {"PENDING", "SKIPPED", "ACTIVE"} => writes[s] = 0
        /\ outcome[s] = "SKIPPED" =>
              s \in DOMAIN progress /\ progress[s] = loaded[s]

\* C7 witness: one run has recorded a DONE and a FAILED species, and the DONE
\* species had an earlier entry that the run replaced.
TerminalEntriesSeen ==
    /\ \E s \in Species : outcome[s] = "DONE" /\ s \in DOMAIN loaded
                          /\ loaded[s] = <<>>
    /\ \E s \in Species : outcome[s] = "FAILED"

\* C8: with resume on and force-redownload off a species is skipped exactly when
\* the ledger holds it and its entry is empty or its artifact is on disk; with
\* force-redownload nothing is skipped.
SkipDecisionExact ==
    /\ Resuming =>
          \A s \in Species : Decided(s) =>
              (outcome[s] = "SKIPPED" <=>
                  /\ s \in DOMAIN loaded
                  /\ (loaded[s] = <<>> \/ FilesExistIn(files0, s)))
    /\ args.force_redownload => \A s \in Species : outcome[s] # "SKIPPED"

\* C8 witness: a species whose entry claims success but whose files are gone is
\* attempted again, and in the same run a prior failure is skipped.
MissingFilesReattempted ==
    /\ Resuming
    /\ \E s \in DOMAIN loaded :
          loaded[s] # <<>> /\ ~FilesExistIn(files0, s) /\ Attempted(s)
    /\ \E s \in DOMAIN loaded : loaded[s] = <<>> /\ outcome[s] = "SKIPPED"

\* C2: when the processing loop has ended and the process has exited, the ledger
\* file holds every outcome recorded in memory during the run.
FinalCheckpointWritten ==
    (pc = "exited" /\ endReason # "none") => ledgerFile = OkFile(progress)

\* C3: there are never CheckpointEvery or more outcomes recorded in memory since
\* the last write of the ledger file.
CheckpointCadence == unsaved < CheckpointEvery

\* C4: after the process was terminated, the ledger the next run would load
\* holds every entry of the last checkpoint whose write completed.
SafeRestart ==
    pc = "idle" =>
        \A s \in DOMAIN durable :
            s \in DOMAIN load_progress /\ load_progress[s] = durable[s]

\* C5: unless the user interrupts, the loop ends only when every species of the
\* batch was skipped or has a recorded outcome; an exception raised while one
\* species is processed gives that species a failed entry and the run goes on.
FailureIsolation ==
    (pc \in {"finally", "exited"} /\ endReason \in {"exhausted", "exception"}) =>
        \A n \in 1..Len(birds) :
            outcome[birds[n].scientific_name] \in {"SKIPPED", "DONE", "FAILED"}

\* The loaded ledger's successful species still have an artifact on disk.
ArtifactsInPlace ==
    \A s \in DOMAIN loaded : loaded[s] # <<>> => FilesExistIn(files0, s)

\* What an idempotent second run shows: the ledger stays the loaded one, no
\* request is issued for a species recorded as successful, and the file a
\* finished run writes is the loaded ledger again.
SecondRunChangesNothing ==
    /\ progress = loaded
    /\ \A s \in DOMAIN loaded : loaded[s] # <<>> => s \notin contacted
    /\ (pc = "exited" /\ ended = "complete") => ledgerFile = OkFile(loaded)

\* C6 as stated: a run with policy never and resume enabled that follows a
\* completed run changes nothing.
IdempotentSecondRun ==
    (since = "complete" /\ args.overwrite = "never" /\ ~args.no_resume) =>
        SecondRunChangesNothing

\* C6: a run with policy never, resume enabled and force-redownload off that
\* follows a completed run whose artifacts are still in place changes nothing.
IdempotentUnforcedSecondRun ==
    (/\ since = "complete"
     /\ args.overwrite = "never"
     /\ Resuming
     /\ ArtifactsInPlace) => SecondRunChangesNothing

\* C6 witness: such a second run has finished over a ledger that holds a
\* success and a failure.
SecondRunFinished ==
    /\ since = "complete" /\ args.overwrite = "never" /\ Resuming
    /\ ArtifactsInPlace
    /\ pc = "exited" /\ ended = "complete"
    /\ \E s \in DOMAIN loaded : loaded[s] # <<>> /\ outcome[s] = "SKIPPED"
    /\ \E s \in DOMAIN loaded : loaded[s] = <<>> /\ outcome[s] = "SKIPPED"

\* A step that issues a remote request: a search, a resolve or a download.
RequestStep ==
    \/ \E hits \in {0, SearchLimit}, raises \in BOOLEAN : SearchTerm(hits, raises)
    \/ \E fate \in ResolveFates : ResolveCandidate(fate)
    \/ \E net \in NetFates, answer \in AskAnswers, better \in BOOLEAN,
          disk \in DiskFates : DownloadAndProcess(net, answer, better, disk)

\* C9: a remote request is issued only when the pacing delay has elapsed since
\* the request before it.
PolitenessDelay == [][RequestStep => ~pendingReq]_vars

\* C10: after an 'always' or 'never' answer to an overwrite prompt, no prompt
\* is issued for a later species of the run.
AskAnswerSticky == ~laterPrompt

\* The arbiter compared a new image with an existing image file.
Compared ==
    /\ callArgs.fn = "_is_new_image_better"
    /\ returned.done
    /\ callArgs.existing.state = "image"

\* C11: when the new image has at least 1.25 times the pixel area of the
\* existing artifact, replacement is approved, whatever the encoded sizes.
BetterApprovesLargerArea ==
    (Compared /\ 4 * Pixels(callArgs.new_img) >= 5 * Pixels(callArgs.existing))
        => returned.value

\* C12: a new image of 1.05 times the area and of equal encoded size is
\* rejected, and an approval that does not rest on the area requires the new
\* encoded size to be at least 1.1 times the existing encoded size.
BetterRejectsSimilar ==
    Compared =>
        LET new == callArgs.new_img
            old == callArgs.existing
        IN  /\ (20 * Pixels(new) = 21 * Pixels(old) /\ new.encoded = old.st_size)
                  => ~returned.value
            /\ (returned.value /\ ~(4 * Pixels(new) > 5 * Pixels(old)))
                  => 10 * new.encoded >= 11 * old.st_size

\* C13: an image that is accepted and normalized is at most MAX_IMAGE_SIZE
\* and at least MIN_IMAGE_SIZE on both axes.
NormalizationBounds ==
    (callArgs.fn = "normalize" /\ returned.done /\ returned.value.ok) =>
        /\ returned.value.w <= MAX_IMAGE_SIZE
        /\ returned.value.h <= MAX_IMAGE_SIZE
        /\ returned.value.w >= MIN_IMAGE_SIZE
        /\ returned.value.h >= MIN_IMAGE_SIZE

\* A ranked list was returned for the hits of callArgs.
RankDone ==
    /\ callArgs.fn = "search_bird_images"
    /\ returned.done
    /\ ~returned.value.raised
Ranked == returned.value.list
SameHit(a, b) == a.title = b.title /\ a.snippet = b.snippet /\ a.size = b.size

\* C14: no hit with a disallow-list term in its title or snippet is in the
\* ranked list, whatever else the hit holds.
DisallowPrecedence ==
    RankDone =>
        /\ \A n \in 1..Len(Ranked) : ~HasBadKeyword(Ranked[n])
        /\ \A m \in 1..Len(callArgs.results) :
              HasBadKeyword(callArgs.results[m]) =>
                  \A n \in 1..Len(Ranked) : ~SameHit(Ranked[n], callArgs.results[m])

\* C14 witness: a hit with both a good and a bad keyword was given, and another
\* hit was ranked.
MixedHitRejected ==
    /\ RankDone
    /\ Len(Ranked) > 0
    /\ \E m \in 1..Len(callArgs.results) :
          /\ HasBadKeyword(callArgs.results[m])
          /\ QualityOf(callArgs.results[m], callArgs.scientific_name) > 0

\* C15: of two hits that differ only in that one title holds the scientific
\* name, the one with the name is ranked whenever the other is, with a final
\* score that is not lower.
ScoringMonotone ==
    RankDone =>
        \A m1, m2 \in 1..Len(callArgs.results) :
            LET with    == callArgs.results[m1]
                without == callArgs.results[m2]
                name    == callArgs.scientific_name
            IN  (/\ with.title = without.title \o <<" ">> \o name
                 /\ with.snippet = without.snippet
                 /\ with.size = without.size
                 /\ ~IsSubstring(MapLower(name), MapLower(without.title))) =>
                    \A n2 \in 1..Len(Ranked) :
                        SameHit(Ranked[n2], without) =>
                            \E n1 \in 1..Len(Ranked) :
                                /\ Ranked[n1].title = with.title
                                /\ Ranked[n1].final_score >= Ranked[n2].final_score

\* C16: the ranked list is in descending order of final score, and of size
\* among equal final scores.
FinalOrdering ==
    RankDone =>
        \A n \in 1..(Len(Ranked) - 1) :
            \/ Ranked[n].final_score > Ranked[n + 1].final_score
            \/ /\ Ranked[n].final_score = Ranked[n + 1].final_score
               /\ Ranked[n].size >= Ranked[n + 1].size

\* C16 witness: two hits of equal final score and different sizes were ranked,
\* given in ascending order of size.
TieBrokenBySize ==
    /\ RankDone
    /\ Len(Ranked) = 2
    /\ Ranked[1].final_score = Ranked[2].final_score
    /\ Ranked[1].size > Ranked[2].size
    /\ callArgs.results[1].size < callArgs.results[2].size

\* The hits that passed the disallow list, in the order they were collected.
Passed ==
    LET Ok(r) == ~HasBadKeyword(r) IN SelectSeq(callArgs.results, Ok)

\* C17: the ranked list holds every title of the hits that passed the disallow
\* list exactly once, and for every title the first of these hits.
DedupKeepsFirst ==
    RankDone =>
        /\ {Ranked[n].title : n \in 1..Len(Ranked)}
              = {Passed[m].title : m \in 1..Len(Passed)}
        /\ \A n1, n2 \in 1..Len(Ranked) :
              Ranked[n1].title = Ranked[n2].title => n1 = n2
        /\ \A n \in 1..Len(Ranked) :
              LET first == CHOOSE m \in 1..Len(Passed) :
                              /\ Passed[m].title = Ranked[n].title
                              /\ \A j \in 1..(m - 1) :
                                    Passed[j].title # Ranked[n].title
              IN  SameHit(Ranked[n], Passed[first])

\* C17 witness: two hits of one title and different sizes were given, and the
\* title that is ranked has a final score of zero.
DuplicateTitleSeen ==
    /\ RankDone
    /\ Len(Passed) = 2
    /\ Passed[1].title = Passed[2].title
    /\ Passed[1].size # Passed[2].size
    /\ Len(Ranked) = 1
    /\ Ranked[1].final_score = 0

\* C18: two distinct scientific names have distinct filename stems.
NoStemCollision ==
    (/\ callArgs.fn = "_sanitize_filename"
     /\ returned.done
     /\ callArgs.first # callArgs.second) =>
        returned.value[1] # returned.value[2]

\* C19: the exit status is 1 exactly when the catalog is empty or the species
\* filter matches nothing, and it is 0 only when the loop ended by exhaustion
\* or by a user interrupt and the final checkpoint is on disk.
ExitStatus ==
    pc = "exited" =>
        /\ exitCode = 1 <=>
              (catalog = <<>> \/ SpeciesFilter(catalog, args) = <<>>)
        /\ exitCode = 0 =>
              /\ endReason \in {"exhausted", "interrupt"}
              /\ ledgerFile = OkFile(progress)

Trying == pc \in {"resolve", "download"}

\* C20: the candidates of a species are the first TopN of the ranked list, tried
\* in rank order from the first; a download follows the resolve of the same
\* candidate; after a failure the next candidate is resolved and no request is
\* repeated; a success ends the species at once; the species fails only after
\* its last candidate was tried.
CandidateProtocol ==
    [][/\ Trying' => (1 <= k' /\ k' <= cands' /\ cands' <= TopN)
       /\ (pc = "score" /\ Trying') => (pc' = "resolve" /\ k' = 1)
       /\ (pc = "resolve" /\ pc' = "download") => (k' = k /\ cands' = cands)
       /\ (Trying /\ pc' = "resolve") => (k' = k + 1 /\ cands' = cands)
       /\ ~(pc = "download" /\ pc' = "download")
       /\ (Trying /\ result' = "file") => (pc = "download" /\ pc' = "record")
       /\ (Trying /\ result' = "null") => (k = cands /\ pc' = "record")
      ]_vars

\* C20 witness: the third candidate is downloaded, after two that failed.
ThirdCandidateTried == pc = "download" /\ k = TopN /\ cands = TopN

\* A step that issues one search request (one iteration of lines 90-103).
SearchStep == pc = "search" /\ pc' \in {"search", "score"}

\* C21: search early stop.  The first search of a species is for its first
\* non-empty variant; every search request is for a non-empty variant and is
\* issued while fewer than 15 candidates are gathered; after a request whatever
\* its hits (none on a transport failure) the next request is for the next
\* non-empty variant, later in the order, unless 15 candidates are gathered
\* or no variant is left, and only then the search ends.
SearchEarlyStop ==
    [][/\ (pc = "loop" /\ pc' = "search") =>
            /\ nAll' = 0
            /\ term' \in 1..NumTerms
            /\ ~TermIsEmpty(birds[i + 1], term')
            /\ \A t \in 1..(term' - 1) : TermIsEmpty(birds[i + 1], t)
       /\ SearchStep =>
            /\ nAll < MinCandidates
            /\ term \in 1..NumTerms
            /\ ~TermIsEmpty(CurBird, term)
            /\ nAll' \in {nAll, nAll + SearchLimit}
            /\ pc' = "search" =>
                 /\ nAll' < MinCandidates
                 /\ term' \in (term + 1)..NumTerms
                 /\ ~TermIsEmpty(CurBird, term')
                 /\ \A t \in (term + 1)..(term' - 1) : TermIsEmpty(CurBird, t)
            /\ pc' = "score" =>
                 \/ nAll' >= MinCandidates
                 \/ \A t \in (term + 1)..NumTerms : TermIsEmpty(CurBird, t)]_vars

\* the search stopped early: 15 candidates gathered and variants left unissued
StoppedEarly ==
    /\ pc = "score"
    /\ nAll >= MinCandidates
    /\ NextTerm(CurBird, term + 1) <= NumTerms

\* the title holds the species name or a generic word, whatever the case
NamesSpecies(title, scientific_name) ==
    ContainsAny(<< <<"b", "i", "r", "d">>, <<"a", "v", "e", "s">>,
                   MapLower(scientific_name) >>, MapLower(title))

InList(x, s) == \E n \in 1..Len(s) : s[n] = x

\* C22: title gate.  For every query variant, a hit of the response is
\* returned by the search client exactly when its title holds, in any letter
\* case, the species name or one of the words 'bird' and 'aves'.
TitleGate ==
    (returned.done /\ callArgs.fn = "_search_commons_images"
                   /\ callArgs.response.state = "ok") =>
        \A n \in 1..Len(callArgs.response.items) :
            LET item == callArgs.response.items[n]
            IN  InList(item, returned.value)
                   <=> NamesSpecies(item.title, callArgs.scientific_name)

\* C23: reject before download.  No download is requested for a candidate
\* whose resolved size exceeds 50 MB or whose resolved width or height is
\* below 200 pixels; the species is not abandoned for it: unless it was the
\* last candidate, the next-ranked one is resolved after it.
RejectBeforeDownload ==
    (returned.done /\ callArgs.fn = "fetch_bird_image") =>
        \A n \in 1..Len(callArgs.infos) :
            LET info == callArgs.infos[n]
                bad  == /\ info.state = "info"
                        /\ \/ info.size > MaxBytes
                           \/ info.width < MIN_IMAGE_SIZE
                           \/ info.height < MIN_IMAGE_SIZE
            IN  bad => /\ ~InList(n, returned.value.downloaded)
                       /\ (InList(n, returned.value.resolved) /\ n < Len(callArgs.infos))
                             => InList(n + 1, returned.value.resolved)

\* an oversized first candidate was passed over and the second one downloaded
OversizedPassedOver ==
    /\ returned.done /\ callArgs.fn = "fetch_bird_image"
    /\ Len(callArgs.infos) >= 2
    /\ callArgs.infos[1].url
    /\ ~TooSmall(callArgs.infos[1])
    /\ callArgs.infos[1].size = MaxBytes + 1
    /\ returned.value.downloaded = <<2>>
    /\ returned.value.value = "file"

\* C24: success implies artifacts.  When main is about to record a filename
\* for a species (line 621 with a filename returned), the file of that name
\* and its JPEG sibling are both in OUTPUT_DIR.
SuccessImpliesArtifacts ==
    (pc = "record" /\ result = "file") =>
        {WebpName(CurName), JpgName(CurName)} \subseteq files

\* C25: no downgrade of a success.  No step of main changes the ledger entry
\* of a species from a filename to the empty string while one of its artifact
\* files is in OUTPUT_DIR.
NoDowngrade ==
    [][\A s \in Species :
          (/\ s \in DOMAIN progress /\ progress[s] # <<>>
           /\ s \in DOMAIN progress' /\ progress'[s] = <<>>)
             => ~FilesExistIn(files', s)]_vars

\* C26: ledger frame across a run.  When a process completes a write of the
\* ledger file, every entry the file held for a species that the run has not
\* attempted is in the file afterwards, unchanged.
LedgerFrame ==
    [][(ledgerFile.state = "ok" /\ ledgerFile' # ledgerFile
                                /\ ledgerFile'.state = "ok") =>
          \A s \in DOMAIN ledgerFile.data :
              outcome'[s] \in {"PENDING", "SKIPPED"} =>
                  /\ s \in DOMAIN ledgerFile'.data
                  /\ ledgerFile'.data[s] = ledgerFile.data[s]]_vars

\* C27: policy 'never' issues no request for an existing artifact.  In a run
\* with --overwrite never, no search, resolve or download request is issued
\* for a species one of whose artifact files was in OUTPUT_DIR when the run
\* started.
NeverPolicyNoRequest ==
    (pc # "idle" /\ args.overwrite = "never") =>
        \A s \in contacted : ~FilesExistIn(files0, s)

\* the species at the first n positions of the catalog after the --species filter
FirstOfCatalog(n) ==
    LET filtered == SpeciesFilter(catalog, args)
    IN  {filtered[m].scientific_name :
            m \in 1..(IF n < Len(filtered) THEN n ELSE Len(filtered))}

\* C28: the limit is applied before resume-skipping.  In a run with --limit N,
\* N >= 0, every species attempted or recorded is among the first N entries of
\* the filtered catalog, and at most N species are attempted; with N = 0 none
\* is.
LimitBound ==
    (pc # "idle" /\ args.limit # NoLimit) =>
        /\ \A s \in Species :
              (Attempted(s) \/ writes[s] > 0) => s \in FirstOfCatalog(args.limit)
        /\ Cardinality({s \in Species : Attempted(s)}) <= args.limit

\* C29: manifest consistency.  In every manifest written, an entry has
\* has_image exactly when the ledger holds a filename for its species, and
\* downloaded_images is the number of entries with has_image, which is at
\* most total_species.
ManifestConsistency ==
    (returned.done /\ callArgs.fn = "create_manifest" /\ returned.value.written) =>
        LET m   == returned.value.manifest
            led == callArgs.progress
        IN  /\ \A s \in DOMAIN m.images :
                  m.images[s].has_image <=> (s \in DOMAIN led /\ led[s] # <<>>)
            /\ m.downloaded_images
                  = Cardinality({s \in DOMAIN m.images : m.images[s].has_image})
            /\ m.downloaded_images <= m.total_species

\* the positions of the two loops of the fetcher stay within their lists
RequestsBounded ==
    /\ pc = "search" => term \in 1..NumTerms
    /\ pc \in {"resolve", "download"} => (k \in 1..TopN /\ k <= cands /\ cands <= TopN)

\* C30: per-species termination.  In a run that is not interrupted, the search
\* index stays within the 9 variants and the candidate index within the top 3,
\* every species whose processing has begun reaches DONE or FAILED, and the run
\* reaches the end of its finally clause.
PerSpeciesTermination ==
    /\ []RequestsBounded
    /\ \A s \in NamesOf(MainCatalog) :
          (outcome[s] = "ACTIVE") ~> (outcome[s] \in {"DONE", "FAILED"})
    /\ (pc = "loop") ~> (pc = "exited")

====
